---- MODULE Spec2Model ----
(***************************************************************************)
(* Model of the joystick controller of pyRcCar (joystick_part.py), set up  *)
(* as js_drive.py sets it up.                                              *)
(*                                                                         *)
(* Python floats are IEEE-754 binary64.  The emergency-stop ramp           *)
(* (throttle += 0.05 until throttle >= 0.0) depends on the rounding of     *)
(* every operation, so floats are modelled exactly: a float                *)
(* is a record [s, m, e] standing for s * m * 2^e with s in {1,-1}, m a    *)
(* 53-bit natural (or zero) and e an integer.  TLC's integers are 32 bits  *)
(* wide, so m is kept as a little-endian sequence of 15-bit limbs.         *)
(* Subnormals, infinities and NaN do not occur for the magnitudes the      *)
(* program handles and are not modelled.                                   *)
(***************************************************************************)
EXTENDS Integers, Sequences, FiniteSets, TLC

(***************************************************************************)
(* Naturals of arbitrary size: little-endian limbs below Base, without     *)
(* leading zero limbs; << >> is zero.                                      *)
(***************************************************************************)
Base == 2^15

RECURSIVE BNorm(_)
BNorm(a) ==
  IF a = << >> THEN << >>
  ELSE IF a[Len(a)] = 0 THEN BNorm(SubSeq(a, 1, Len(a) - 1)) ELSE a

RECURSIVE BFromInt(_)
BFromInt(n) == IF n = 0 THEN << >> ELSE <<n % Base>> \o BFromInt(n \div Base)

RECURSIVE BToInt(_)
BToInt(a) == IF a = << >> THEN 0 ELSE a[1] + Base * BToInt(Tail(a))

RECURSIVE BCmpAt(_, _, _)
BCmpAt(a, b, i) ==
  IF i = 0 THEN 0
  ELSE IF a[i] # b[i] THEN (IF a[i] < b[i] THEN -1 ELSE 1)
  ELSE BCmpAt(a, b, i - 1)

BCmp(a, b) ==
  IF Len(a) # Len(b) THEN (IF Len(a) < Len(b) THEN -1 ELSE 1)
  ELSE BCmpAt(a, b, Len(a))

BHead(a) == IF a = << >> THEN 0 ELSE a[1]
BTail(a) == IF a = << >> THEN << >> ELSE Tail(a)

RECURSIVE BAddC(_, _, _)
BAddC(a, b, c) ==
  IF a = << >> /\ b = << >> THEN (IF c = 0 THEN << >> ELSE <<c>>)
  ELSE LET x == BHead(a) + BHead(b) + c
       IN  <<x % Base>> \o BAddC(BTail(a), BTail(b), x \div Base)

BAdd(a, b) == BAddC(a, b, 0)

RECURSIVE BSubB(_, _, _)
BSubB(a, b, br) ==
  IF a = << >> THEN << >>
  ELSE LET x == a[1] - BHead(b) - br
       IN  <<(x + Base) % Base>> \o BSubB(Tail(a), BTail(b), IF x < 0 THEN 1 ELSE 0)

\* a - b for a >= b
BSub(a, b) == BNorm(BSubB(a, b, 0))

RECURSIVE BMulSmallC(_, _, _)
BMulSmallC(a, k, c) ==
  IF a = << >> THEN (IF c = 0 THEN << >> ELSE <<c>>)
  ELSE LET x == a[1] * k + c
       IN  <<x % Base>> \o BMulSmallC(Tail(a), k, x \div Base)

\* a * k for 0 <= k < Base
BMulSmall(a, k) == BNorm(BMulSmallC(a, k, 0))

RECURSIVE BMul(_, _)
BMul(a, b) ==
  IF a = << >> \/ b = << >> THEN << >>
  ELSE BAdd(BMulSmall(a, b[1]),
            LET r == BMul(a, Tail(b)) IN IF r = << >> THEN << >> ELSE <<0>> \o r)

RECURSIVE BZeros(_)
BZeros(n) == IF n = 0 THEN << >> ELSE <<0>> \o BZeros(n - 1)

\* a * 2^n
BShl(a, n) ==
  IF a = << >> THEN << >>
  ELSE BZeros(n \div 15) \o BMulSmall(a, 2^(n % 15))

\* the quotient of a by k, 0 < k < Base, from the top limb down
RECURSIVE BDivSmallAt(_, _, _, _)
BDivSmallAt(a, k, i, rem) ==
  IF i = 0 THEN << >>
  ELSE LET x == rem * Base + a[i]
       IN  BDivSmallAt(a, k, i - 1, x % k) \o <<x \div k>>

\* floor(a / 2^n)
BShr(a, n) ==
  IF Len(a) <= n \div 15 THEN << >>
  ELSE LET t == SubSeq(a, (n \div 15) + 1, Len(a))
       IN  BNorm(BDivSmallAt(t, 2^(n % 15), Len(t), 0))

BitLenSmall(x) == CHOOSE k \in 1..15 : 2^(k - 1) <= x /\ x < 2^k

BBitLen(a) == IF a = << >> THEN 0 ELSE 15 * (Len(a) - 1) + BitLenSmall(a[Len(a)])

BDouble(a, bit) ==
  IF a = << >> THEN (IF bit = 0 THEN << >> ELSE <<1>>)
  ELSE BAddC(a, a, bit)

\* <<digit, remainder>> of r by d for r < d * Base, where the top limb of d
\* is at least Base / 2: the digit is q or at most two below it
RECURSIVE BDigitFit(_, _, _)
BDigitFit(r, d, q) ==
  IF BCmp(BMulSmall(d, q), r) <= 0 THEN <<q, BSub(r, BMulSmall(d, q))>>
  ELSE BDigitFit(r, d, q - 1)

\* the digit guessed from the top two limbs of r and the top limb of d
BDigitAt(r, d) ==
  BDigitFit(r, d,
            IF Len(r) < Len(d) THEN 0
            ELSE IF Len(r) = Len(d) THEN r[Len(d)] \div d[Len(d)]
            ELSE IF (r[Len(d) + 1] * Base + r[Len(d)]) \div d[Len(d)] >= Base
                 THEN Base - 1
            ELSE (r[Len(d) + 1] * Base + r[Len(d)]) \div d[Len(d)])

\* <<quotient, remainder>> of limbs i .. 1 of n by d, r the remainder so
\* far; BDivModStep has the digit of limb i, which is never negative, and
\* the remainder it leaves
RECURSIVE BDivModAt(_, _, _, _)
RECURSIVE BDivModStep(_, _, _, _)
BDivModJoin(rest, digit) == <<rest[1] \o <<digit>>, rest[2]>>

BDivModStep(n, d, i, dr) ==
  IF dr[1] < 0 THEN dr
  ELSE BDivModJoin(BDivModAt(n, d, i - 1, dr[2]), dr[1])

BDivModAt(n, d, i, r) ==
  IF i = 0 THEN <<<< >>, r>>
  ELSE BDivModStep(n, d, i, BDigitAt(BNorm(<<n[i]>> \o r), d))

\* n and d come scaled by 2^s, which the remainder is scaled back by
BQuotNorm(qr, s) == <<BNorm(qr[1]), BShr(qr[2], s)>>

\* <<quotient, remainder>> of n by d > 0
BDivMod(n, d) ==
  BQuotNorm(BDivModAt(BShl(n, 15 - BitLenSmall(d[Len(d)])),
                      BShl(d, 15 - BitLenSmall(d[Len(d)])),
                      Len(BShl(n, 15 - BitLenSmall(d[Len(d)]))), << >>),
            15 - BitLenSmall(d[Len(d)]))

(***************************************************************************)
(* binary64 arithmetic, round to nearest, ties to even                     *)
(***************************************************************************)
FZero(s) == [s |-> s, m |-> << >>, e |-> 0]

\* <<q, sticky>> for n / d > 0 scaled by 2^sh: q the integer part, which
\* has 54 or 55 bits, sticky whether a fraction is left
FShifted(n, q, sh) == <<q, BShl(q, sh) # n>>

FSticky(qr) == <<qr[1], qr[2] # << >> >>

FScaled(n, d, sh) ==
  IF d = <<1>> /\ sh >= 0 THEN <<BShl(n, sh), FALSE>>
  ELSE IF d = <<1>> THEN FShifted(n, BShr(n, -sh), -sh)
  ELSE FSticky(BDivMod(IF sh >= 0 THEN BShl(n, sh) ELSE n,
                       IF sh >= 0 THEN d ELSE BShl(d, -sh)))

\* the float s * m * 2^e for m of 53 or, after a carry, 54 bits
FPacked(s, m, e, ovf) ==
  [s |-> s, m |-> IF ovf THEN BShr(m, 1) ELSE m, e |-> e + (IF ovf THEN 1 ELSE 0)]

FCarried(s, m, e) == FPacked(s, m, e, BBitLen(m) = 54)

\* top rounded to nearest, ties to even, on the low bits cut from it: low
\* against half, sticky whether more is left below
FNearest(s, top, e, low, half, sticky) ==
  FCarried(s,
           IF \/ low > half
              \/ low = half /\ sticky
              \/ low = half /\ ~sticky /\ top[1] % 2 = 1
           THEN BAdd(top, <<1>>) ELSE top,
           e)

FCut(s, q, sticky, e, x, top) ==
  FNearest(s, top, e + x, BToInt(BSub(q, BShl(top, x))), 2^(x - 1), sticky)

FTop(s, q, sticky, e, x) == FCut(s, q, sticky, e, x, BShr(q, x))

FQuot(s, qs, e) == FTop(s, qs[1], qs[2], e, BBitLen(qs[1]) - 53)

FRoundAt(s, n, d, e0, sh) == FQuot(s, FScaled(n, d, sh), e0 - sh)

\* the float nearest to s * (n / d) * 2^e0
FRound(s, n, d, e0) ==
  IF n = << >> THEN FZero(s)
  ELSE FRoundAt(s, n, d, e0, 54 - (BBitLen(n) - BBitLen(d)))

FIsZero(a) == a.m = << >>

\* an integer, and a decimal literal n/d, as Python reads them
FInt(i) == FRound(IF i < 0 THEN -1 ELSE 1, BFromInt(IF i < 0 THEN -i ELSE i), <<1>>, 0)
FRat(n, d) == FRound(IF n < 0 THEN -1 ELSE 1, BFromInt(IF n < 0 THEN -n ELSE n), BFromInt(d), 0)

FNeg(a) == [a EXCEPT !.s = -a.s]
FAbs(a) == [a EXCEPT !.s = 1]

\* the magnitudes of a and b compared: -1, 0 or 1
FCmpMag(a, b) ==
  IF FIsZero(a) \/ FIsZero(b)
  THEN (IF FIsZero(a) /\ FIsZero(b) THEN 0 ELSE IF FIsZero(a) THEN -1 ELSE 1)
  ELSE IF a.e # b.e THEN (IF a.e < b.e THEN -1 ELSE 1)
  ELSE BCmp(a.m, b.m)

\* a compared with b: -1, 0 or 1 (-0.0 equals 0.0)
FCmp(a, b) ==
  IF FIsZero(a) /\ FIsZero(b) THEN 0
  ELSE IF FIsZero(a) THEN -b.s
  ELSE IF FIsZero(b) THEN a.s
  ELSE IF a.s # b.s THEN a.s
  ELSE a.s * FCmpMag(a, b)

FEq(a, b) == FCmp(a, b) = 0
FLt(a, b) == FCmp(a, b) < 0
FGt(a, b) == FCmp(a, b) > 0
FGe(a, b) == FCmp(a, b) >= 0
FLe(a, b) == FCmp(a, b) <= 0

\* the sum of a.s * A * 2^e and b.s * B * 2^e, c comparing A with B
FAddAligned(a, b, A, B, e, c) ==
  IF a.s # b.s /\ c = 0 THEN FZero(1)
  ELSE FRound(IF a.s = b.s \/ c > 0 THEN a.s ELSE b.s,
              IF a.s = b.s THEN BAdd(A, B)
              ELSE IF c > 0 THEN BSub(A, B) ELSE BSub(B, A),
              <<1>>, e)

FAddCmp(a, b, A, B, e) == FAddAligned(a, b, A, B, e, BCmp(A, B))

FAddAt(a, b, e) == FAddCmp(a, b, BShl(a.m, a.e - e), BShl(b.m, b.e - e), e)

FAdd(a, b) ==
  IF FIsZero(a) /\ FIsZero(b) THEN FZero(IF a.s = -1 /\ b.s = -1 THEN -1 ELSE 1)
  ELSE IF FIsZero(a) THEN b
  ELSE IF FIsZero(b) THEN a
  ELSE FAddAt(a, b, IF a.e < b.e THEN a.e ELSE b.e)

FSub(a, b) == FAdd(a, FNeg(b))

FMul(a, b) ==
  IF FIsZero(a) \/ FIsZero(b) THEN FZero(a.s * b.s)
  ELSE FRound(a.s * b.s, BMul(a.m, b.m), <<1>>, a.e + b.e)

\* a / b for b # 0
FDiv(a, b) ==
  IF FIsZero(a) THEN FZero(a.s * b.s)
  ELSE FRound(a.s * b.s, a.m, b.m, a.e - b.e)

\* Python's min(a, b) and max(a, b): the first argument unless the second beats it
FMin(a, b) == IF FLt(b, a) THEN b ELSE a
FMax(a, b) == IF FGt(b, a) THEN b ELSE a

\* the natural nearest to |a| * 100, ties to even: n is m * 100, sh the
\* bits to cut from it, q what is left of it, c compares twice the bits cut
\* with 2^sh
FHundredthsUp(q, c) ==
  IF c > 0 \/ (c = 0 /\ q # << >> /\ q[1] % 2 = 1) THEN BAdd(q, <<1>>) ELSE q

FHundredthsCut(n, sh, q) ==
  FHundredthsUp(q, BCmp(BDouble(BSub(n, BShl(q, sh)), 0), BShl(<<1>>, sh)))

FHundredthsOf(n, sh) == FHundredthsCut(n, sh, BShr(n, sh))

FHundredths(a) ==
  IF FIsZero(a) THEN << >>
  ELSE IF a.e >= 0 THEN BShl(BMulSmall(a.m, 100), a.e)
  ELSE FHundredthsOf(BMulSmall(a.m, 100), -a.e)

\* Python's round(a, 2): the float nearest to the two-decimal rounding of a
FRound2(a) == FRound(a.s, FHundredths(a), BFromInt(100), 0)

\* int(a // 1): the greatest integer not above a
FFloor(a) ==
  IF FIsZero(a) THEN 0
  ELSE IF a.e >= 0 THEN a.s * BToInt(BShl(a.m, a.e))
  ELSE IF a.s = 1 THEN BToInt(BShr(a.m, -a.e))
  ELSE IF BShl(BShr(a.m, -a.e), -a.e) = a.m THEN -BToInt(BShr(a.m, -a.e))
  ELSE -(BToInt(BShr(a.m, -a.e)) + 1)

\* the float literals of the program
F_0 == FZero(1)
F_1 == FInt(1)
F_minus_1 == FInt(-1)
F_32767 == FInt(32767)
F_0_01 == FRat(1, 100)
F_0_05 == FRat(5, 100)
F_0_2 == FRat(2, 10)
F_minus_0_2 == FRat(-2, 10)

\* None where a float is expected
NoneF == [s |-> 0, m |-> << >>, e |-> 0]
IsNone(a) == a.s = 0

(***************************************************************************)
(* The input device: a Logitech F710 as the kernel reports it, with one    *)
(* axis code and one button code the name tables do not know.              *)
(***************************************************************************)
HexDigits == <<"0", "1", "2", "3", "4", "5", "6", "7",
               "8", "9", "a", "b", "c", "d", "e", "f">>

\* 'unknown(0x%02x)' % axis and 'unknown(0x%03x)' % btn
unknown_axis(code) ==
  "unknown(0x" \o HexDigits[(code \div 16) + 1] \o HexDigits[(code % 16) + 1] \o ")"
unknown_button(code) ==
  "unknown(0x" \o HexDigits[(code \div 256) + 1] \o HexDigits[((code \div 16) % 16) + 1]
               \o HexDigits[(code % 16) + 1] \o ")"

axis_names ==
  (0 :> "left_stick_horz") @@ (1 :> "left_stick_vert") @@
  (3 :> "right_stick_horz") @@ (4 :> "right_stick_vert") @@
  (2 :> "L2_pressure") @@ (5 :> "R2_pressure") @@
  (16 :> "dpad_leftright") @@ (17 :> "dpad_up_down")

button_names ==
  (314 :> "back") @@ (315 :> "start") @@ (316 :> "Logitech") @@
  (304 :> "A") @@ (305 :> "B") @@ (307 :> "X") @@ (308 :> "Y") @@
  (310 :> "L1") @@ (311 :> "R1") @@
  (317 :> "left_stick_press") @@ (318 :> "right_stick_press")

\* the axis and button codes the device answers to JSIOCGAXMAP and JSIOCGBTNMAP
DevAxisCodes == <<0, 1, 2, 3, 4, 5, 16, 17, 6>>
DevButtonCodes == <<304, 305, 307, 308, 310, 311, 314, 315, 316, 317, 318, 306>>

axis_name_of(code) ==
  IF code \in DOMAIN axis_names THEN axis_names[code] ELSE unknown_axis(code)
button_name_of(code) ==
  IF code \in DOMAIN button_names THEN button_names[code] ELSE unknown_button(code)

(***************************************************************************)
(* Joystick: the device decoder                                            *)
(***************************************************************************)
\* Joystick.__init__
Joystick ==
  [axis_states |-> << >>, button_states |-> << >>,
   axis_map |-> << >>, button_map |-> << >>, jsdev |-> "None", is_None |-> FALSE]

\* the controller's self.js before init_js has made a joystick: None
NoJoystick == [Joystick EXCEPT !.is_None = TRUE]

\* Joystick.init: FALSE and nothing opened when the device file is missing
Joystick_init(j, present) ==
  IF ~present THEN j
  ELSE LET amap == [i \in 1..Len(DevAxisCodes) |-> axis_name_of(DevAxisCodes[i])]
           bmap == [i \in 1..Len(DevButtonCodes) |-> button_name_of(DevButtonCodes[i])]
       IN  [j EXCEPT !.jsdev = "open",
                     !.axis_map = amap,
                     !.button_map = bmap,
                     !.axis_states = [n \in {amap[i] : i \in 1..Len(amap)} |-> FZero(1)],
                     !.button_states = [n \in {bmap[i] : i \in 1..Len(bmap)} |-> 0]]

\* value / 32767.0 for the values the records of the model carry
RawValues == {-32767, -16383, 0, 1, 16383, 32767}
normalized == [value \in RawValues |-> FDiv(FInt(value), F_32767)]

NoEvent == [button |-> "None", button_state |-> 0, axis |-> "None", axis_val |-> NoneF]

\* Joystick.poll after the test of bit 0x80: the button branch, then the
\* axis branch.  An index past the end of button_map or axis_map raises
\* IndexError where the map is subscripted
poll_decode(j, rec) ==
  LET isb == rec.typev % 2 = 1
      isa == (rec.typev \div 2) % 2 = 1
      berr == isb /\ rec.number >= Len(j.button_map)
      aerr == isa /\ rec.number >= Len(j.axis_map)
      button == j.button_map[rec.number + 1]
      axis == j.axis_map[rec.number + 1]
      fvalue == normalized[rec.value]
      j1 == IF isb /\ ~berr
            THEN [j EXCEPT !.button_states[button] = rec.value] ELSE j
      j2 == IF isa /\ ~aerr
            THEN [j1 EXCEPT !.axis_states[axis] = fvalue] ELSE j1
  IN  IF berr THEN [js |-> j, ev |-> NoEvent, exc |-> "IndexError"]
      ELSE IF aerr THEN [js |-> j1, ev |-> NoEvent, exc |-> "IndexError"]
      ELSE [js |-> j2,
            ev |-> [button |-> IF isb THEN button ELSE "None",
                    button_state |-> IF isb THEN rec.value ELSE 0,
                    axis |-> IF isa THEN axis ELSE "None",
                    axis_val |-> IF isa THEN fvalue ELSE NoneF],
            exc |-> "None"]

\* poll without the test of bit 0x80
poll_keeps_init_events(j, rec) ==
  IF j.jsdev = "None" THEN [js |-> j, ev |-> NoEvent, exc |-> "None"]
  ELSE IF rec.len = 0 THEN [js |-> j, ev |-> NoEvent, exc |-> "None"]
  ELSE IF rec.len # 8 THEN [js |-> j, ev |-> NoEvent, exc |-> "struct.error"]
  ELSE poll_decode(j, rec)

\* Joystick.poll on the bytes read: rec.len bytes, unpacked as 'IhBB' into
\* (time, value, typev, number).  The result is the joystick, what poll
\* returns and the exception it raises, if any
poll(j, rec) ==
  IF j.jsdev = "None" THEN [js |-> j, ev |-> NoEvent, exc |-> "None"]
  ELSE IF rec.len = 0 THEN [js |-> j, ev |-> NoEvent, exc |-> "None"]
  ELSE IF rec.len # 8 THEN [js |-> j, ev |-> NoEvent, exc |-> "struct.error"]
  ELSE IF (rec.typev \div 128) % 2 = 1 THEN [js |-> j, ev |-> NoEvent, exc |-> "None"]
  ELSE poll_decode(j, rec)

(***************************************************************************)
(* JoystickController                                                      *)
(***************************************************************************)
ES_IDLE == -1
ES_START == 0
ES_THROTTLE_NEG_ONE == 1
ES_THROTTLE_POS_ONE == 2
ES_THROTTLE_NEG_TWO == 3

\* JoystickController.__init__ with its throttle_scale and
\* auto_record_on_throttle arguments; throttle_dir and steering_scale are
\* the defaults, which js_drive.py uses too
JoystickController(throttle_scale, auto_record_on_throttle) ==
  [angle |-> F_0,
   throttle |-> F_0,
   mode |-> "user",
   running |-> TRUE,
   last_throttle_axis_val |-> F_0,
   throttle_scale |-> throttle_scale,
   steering_scale |-> F_1,
   throttle_dir |-> F_minus_1,
   recording |-> FALSE,
   constant_throttle |-> FALSE,
   auto_record_on_throttle |-> auto_record_on_throttle,
   estop_state |-> ES_IDLE,
   chaos_monkey_steering |-> NoneF,
   dead_zone |-> F_0]

on_throttle_changes(c) ==
  IF c.auto_record_on_throttle
  THEN [c EXCEPT !.recording = FGt(FAbs(c.throttle), c.dead_zone) /\ c.mode = "user"]
  ELSE c

\* emergency_stop that leaves constant_throttle as it is
emergency_stop_keeps_constant(c) ==
  [c EXCEPT !.mode = "user",
            !.recording = FALSE,
            !.estop_state = ES_START,
            !.throttle = F_0]

emergency_stop(c) ==
  [c EXCEPT !.mode = "user",
            !.recording = FALSE,
            !.constant_throttle = FALSE,
            !.estop_state = ES_START,
            !.throttle = F_0]

set_steering(c, axis_val) ==
  [c EXCEPT !.angle = FMul(c.steering_scale, axis_val)]

\* set_throttle with the test of auto_record_on_throttle left out
set_throttle_always_records(c, axis_val) ==
  [c EXCEPT !.last_throttle_axis_val = axis_val,
            !.throttle = FMul(FMul(c.throttle_dir, axis_val), c.throttle_scale),
            !.recording =
              /\ FGt(FAbs(FMul(FMul(c.throttle_dir, axis_val), c.throttle_scale)),
                     c.dead_zone)
              /\ c.mode = "user"]

set_throttle(c, axis_val) ==
  on_throttle_changes(
    [c EXCEPT !.last_throttle_axis_val = axis_val,
              !.throttle = FMul(FMul(c.throttle_dir, axis_val), c.throttle_scale)])

toggle_manual_recording(c) ==
  IF c.auto_record_on_throttle THEN c
  ELSE IF c.recording THEN [c EXCEPT !.recording = FALSE]
  ELSE [c EXCEPT !.recording = TRUE]

\* the tail increase_max_throttle and decrease_max_throttle share, after
\* throttle_scale is set
rescale_throttle(c) ==
  IF c.constant_throttle
  THEN on_throttle_changes([c EXCEPT !.throttle = c.throttle_scale])
  ELSE [c EXCEPT !.throttle =
          FMul(FMul(c.throttle_dir, c.last_throttle_axis_val), c.throttle_scale)]

\* increase_max_throttle without min(1.0, ...)
increase_max_throttle_unclamped(c) ==
  rescale_throttle(
    [c EXCEPT !.throttle_scale = FRound2(FAdd(c.throttle_scale, F_0_01))])

increase_max_throttle(c) ==
  rescale_throttle(
    [c EXCEPT !.throttle_scale =
       FRound2(FMin(F_1, FAdd(c.throttle_scale, F_0_01)))])

decrease_max_throttle(c) ==
  rescale_throttle(
    [c EXCEPT !.throttle_scale =
       FRound2(FMax(F_0, FSub(c.throttle_scale, F_0_01)))])

toggle_constant_throttle(c) ==
  IF c.constant_throttle
  THEN on_throttle_changes([c EXCEPT !.constant_throttle = FALSE, !.throttle = F_0])
  ELSE on_throttle_changes([c EXCEPT !.constant_throttle = TRUE,
                                     !.throttle = c.throttle_scale])

\* toggle_mode that goes from local back to local_angle
toggle_mode_two_way(c) ==
  IF c.mode = "user" THEN [c EXCEPT !.mode = "local_angle"]
  ELSE IF c.mode = "local_angle" THEN [c EXCEPT !.mode = "local"]
  ELSE [c EXCEPT !.mode = "local_angle"]

toggle_mode(c) ==
  IF c.mode = "user" THEN [c EXCEPT !.mode = "local_angle"]
  ELSE IF c.mode = "local_angle" THEN [c EXCEPT !.mode = "local"]
  ELSE [c EXCEPT !.mode = "user"]

chaos_monkey_on_left(c) == [c EXCEPT !.chaos_monkey_steering = F_minus_0_2]
chaos_monkey_on_right(c) == [c EXCEPT !.chaos_monkey_steering = F_0_2]
chaos_monkey_off(c) == [c EXCEPT !.chaos_monkey_steering = NoneF]

\* erase_last_N_records that puts the mode back to 'user'
erase_last_N_records_resets_mode(c) == [c EXCEPT !.mode = "user"]

\* self.tub is None: js_drive.py never calls set_tub
erase_last_N_records(c) == c

\* on_dpad_left and on_dpad_right only print
on_axis_dpad_LR(c, val) == c

\* on_dpad_up is increase_max_throttle, on_dpad_down decrease_max_throttle
on_axis_dpad_UD(c, val) ==
  IF FEq(val, F_minus_1) THEN increase_max_throttle(c)
  ELSE IF FEq(val, F_1) THEN decrease_max_throttle(c)
  ELSE c

\* LogitechJoystickController.init_trigger_maps: the bound methods by name
button_down_trigger_map ==
  ("start" :> "toggle_mode") @@ ("B" :> "toggle_manual_recording") @@
  ("Y" :> "erase_last_N_records") @@ ("A" :> "emergency_stop") @@
  ("back" :> "toggle_constant_throttle") @@
  ("R1" :> "chaos_monkey_on_right") @@ ("L1" :> "chaos_monkey_on_left")

button_up_trigger_map ==
  ("R1" :> "chaos_monkey_off") @@ ("L1" :> "chaos_monkey_off")

axis_trigger_map ==
  ("right_stick_horz" :> "set_steering") @@ ("left_stick_vert" :> "set_throttle") @@
  ("dpad_leftright" :> "on_axis_dpad_LR") @@ ("dpad_up_down" :> "on_axis_dpad_UD")

\* the call of a bound method without argument, and with the axis value
call_button(op, c) ==
  CASE op = "toggle_mode" -> toggle_mode(c)
    [] op = "toggle_manual_recording" -> toggle_manual_recording(c)
    [] op = "erase_last_N_records" -> erase_last_N_records(c)
    [] op = "emergency_stop" -> emergency_stop(c)
    [] op = "toggle_constant_throttle" -> toggle_constant_throttle(c)
    [] op = "chaos_monkey_on_right" -> chaos_monkey_on_right(c)
    [] op = "chaos_monkey_on_left" -> chaos_monkey_on_left(c)
    [] op = "chaos_monkey_off" -> chaos_monkey_off(c)

call_axis(op, c, val) ==
  CASE op = "set_steering" -> set_steering(c, val)
    [] op = "set_throttle" -> set_throttle(c, val)
    [] op = "on_axis_dpad_LR" -> on_axis_dpad_LR(c, val)
    [] op = "on_axis_dpad_UD" -> on_axis_dpad_UD(c, val)

\* the operations one pass of update's loop invokes for what poll returned,
\* in the order it invokes them
dispatched(ev) ==
  (IF ev.axis # "None" /\ ev.axis \in DOMAIN axis_trigger_map
   THEN <<axis_trigger_map[ev.axis]>> ELSE << >>)
  \o
  (IF ev.button # "None" /\ ev.button_state >= 1
      /\ ev.button \in DOMAIN button_down_trigger_map
   THEN <<button_down_trigger_map[ev.button]>> ELSE << >>)
  \o
  (IF ev.button # "None" /\ ev.button_state = 0
      /\ ev.button \in DOMAIN button_up_trigger_map
   THEN <<button_up_trigger_map[ev.button]>> ELSE << >>)

\* update's loop with elif before the button tests: a record with an axis
\* operation loses its button operation
dispatch_elif(c, ev) ==
  IF ev.axis # "None" /\ ev.axis \in DOMAIN axis_trigger_map
  THEN call_axis(axis_trigger_map[ev.axis], c, ev.axis_val)
  ELSE IF ev.button # "None" /\ ev.button_state >= 1
          /\ ev.button \in DOMAIN button_down_trigger_map
  THEN call_button(button_down_trigger_map[ev.button], c)
  ELSE IF ev.button # "None" /\ ev.button_state = 0
          /\ ev.button \in DOMAIN button_up_trigger_map
  THEN call_button(button_up_trigger_map[ev.button], c)
  ELSE c

\* the controller after one pass of update's loop on what poll returned
dispatch(c, ev) ==
  LET c1 == IF ev.axis # "None" /\ ev.axis \in DOMAIN axis_trigger_map
            THEN call_axis(axis_trigger_map[ev.axis], c, ev.axis_val) ELSE c
      c2 == IF ev.button # "None" /\ ev.button_state >= 1
               /\ ev.button \in DOMAIN button_down_trigger_map
            THEN call_button(button_down_trigger_map[ev.button], c1) ELSE c1
      c3 == IF ev.button # "None" /\ ev.button_state = 0
               /\ ev.button \in DOMAIN button_up_trigger_map
            THEN call_button(button_up_trigger_map[ev.button], c2) ELSE c2
  IN  c3

\* run_threaded: the controller after the call and the tuple it returns
Output(angle, throttle, mode, recording) ==
  [angle |-> angle, throttle |-> throttle, mode |-> mode, recording |-> recording]

\* run_threaded in ES_START; ES_THROTTLE_NEG_ONE, ES_THROTTLE_POS_ONE and
\* ES_THROTTLE_NEG_TWO follow
\* ES_START that returns the stored angle instead of 0.0
estop_start_keeps_angle(c) ==
  [c |-> [c EXCEPT !.estop_state = ES_THROTTLE_NEG_ONE],
   out |-> Output(c.angle, FMul(F_minus_1, c.throttle_scale), c.mode, FALSE)]

estop_start(c) ==
  [c |-> [c EXCEPT !.estop_state = ES_THROTTLE_NEG_ONE],
   out |-> Output(F_0, FMul(F_minus_1, c.throttle_scale), c.mode, FALSE)]

\* ES_THROTTLE_NEG_ONE with the forward blip scaled by throttle_scale
estop_throttle_neg_one_scaled(c) ==
  [c |-> [c EXCEPT !.estop_state = ES_THROTTLE_POS_ONE],
   out |-> Output(F_0, FMul(F_0_01, c.throttle_scale), c.mode, FALSE)]

estop_throttle_neg_one(c) ==
  [c |-> [c EXCEPT !.estop_state = ES_THROTTLE_POS_ONE],
   out |-> Output(F_0, F_0_01, c.mode, FALSE)]

\* ES_THROTTLE_POS_ONE that also stores the angle 0.0 it returns
estop_throttle_pos_one_centred(c) ==
  LET t == FMul(F_minus_1, c.throttle_scale)
  IN  [c |-> [c EXCEPT !.estop_state = ES_THROTTLE_NEG_TWO, !.throttle = t,
                       !.angle = F_0],
       out |-> Output(F_0, t, c.mode, FALSE)]

estop_throttle_pos_one(c) ==
  LET t == FMul(F_minus_1, c.throttle_scale)
  IN  [c |-> [c EXCEPT !.estop_state = ES_THROTTLE_NEG_TWO, !.throttle = t],
       out |-> Output(F_0, t, c.mode, FALSE)]

\* ES_THROTTLE_NEG_TWO that ends only above 0.0
estop_throttle_neg_two_strict(c) ==
  LET t == FAdd(c.throttle, F_0_05)
      c1 == IF FGt(t, F_0)
            THEN [c EXCEPT !.throttle = F_0, !.estop_state = ES_IDLE]
            ELSE [c EXCEPT !.throttle = t]
  IN  [c |-> c1, out |-> Output(F_0, c1.throttle, c.mode, FALSE)]

estop_throttle_neg_two(c) ==
  LET t == FAdd(c.throttle, F_0_05)
      c1 == IF FGe(t, F_0)
            THEN [c EXCEPT !.throttle = F_0, !.estop_state = ES_IDLE]
            ELSE [c EXCEPT !.throttle = t]
  IN  [c |-> c1, out |-> Output(F_0, c1.throttle, c.mode, FALSE)]

\* the idle tick whose override leaves the recording flag as it is
no_estop_keeps_recording(c) ==
  IF ~IsNone(c.chaos_monkey_steering)
  THEN [c |-> c, out |-> Output(c.chaos_monkey_steering, c.throttle, c.mode, c.recording)]
  ELSE [c |-> c, out |-> Output(c.angle, c.throttle, c.mode, c.recording)]

\* run_threaded with the state machine idle: the override, else the stick
no_estop(c) ==
  IF ~IsNone(c.chaos_monkey_steering)
  THEN [c |-> c, out |-> Output(c.chaos_monkey_steering, c.throttle, c.mode, FALSE)]
  ELSE [c |-> c, out |-> Output(c.angle, c.throttle, c.mode, c.recording)]

run_threaded(c) ==
  IF c.estop_state > ES_IDLE /\ c.estop_state = ES_START THEN estop_start(c)
  ELSE IF c.estop_state > ES_IDLE /\ c.estop_state = ES_THROTTLE_NEG_ONE
  THEN estop_throttle_neg_one(c)
  ELSE IF c.estop_state > ES_IDLE /\ c.estop_state = ES_THROTTLE_POS_ONE
  THEN estop_throttle_pos_one(c)
  ELSE IF c.estop_state > ES_IDLE /\ c.estop_state = ES_THROTTLE_NEG_TWO
  THEN estop_throttle_neg_two(c)
  ELSE no_estop(c)

(***************************************************************************)
(* arduino_part.py.  What a function returns or raises is a record: its    *)
(* y (or pulse) and the exception exc, "None" when it returns.             *)
(***************************************************************************)
\* map_range_ratio rounding to the nearest integer instead of // 1
map_range_nearest(x, X_min, Y_min, XY_ratio) ==
  IF FIsZero(XY_ratio) THEN [y |-> 0, exc |-> "ZeroDivisionError"]
  ELSE [y |-> FFloor(FAdd(FAdd(FDiv(FSub(x, FInt(X_min)), XY_ratio), FInt(Y_min)),
                          FRat(1, 2))),
        exc |-> "None"]

\* map_range from XY_ratio on: the division by XY_ratio raises when it is 0.0
map_range_ratio(x, X_min, Y_min, XY_ratio) ==
  IF FIsZero(XY_ratio) THEN [y |-> 0, exc |-> "ZeroDivisionError"]
  ELSE [y |-> FFloor(FAdd(FDiv(FSub(x, FInt(X_min)), XY_ratio), FInt(Y_min))),
        exc |-> "None"]

\* map_range for a float x and integer bounds: X_range / Y_range raises
\* when Y_range is 0
map_range(x, X_min, X_max, Y_min, Y_max) ==
  IF Y_max - Y_min = 0 THEN [y |-> 0, exc |-> "ZeroDivisionError"]
  ELSE map_range_ratio(x, X_min, Y_min,
                       FDiv(FInt(X_max - X_min), FInt(Y_max - Y_min)))

\* ArduinoFirmata.set_pulse, under set_servo_pulse and set_esc_pulse, when
\* the first analog_write raises (fail[1]) and when the one in the except
\* clause does (fail[2]): the calls of analog_write made and the exception
\* that leaves set_pulse
set_pulse(angle, fail) ==
  [angle |-> angle,
   writes |-> IF fail[1] THEN 2 ELSE 1,
   exc |-> IF fail[1] /\ fail[2] THEN "Exception" ELSE "None"]

\* the ESC writes that are kept
MaxSent == 4

LEFT_ANGLE == -1
RIGHT_ANGLE == 1
MIN_THROTTLE == -1
MAX_THROTTLE == 1

\* PWMSteering.__init__ and PWMThrottle.__init__
PWMSteering(left_pulse, right_pulse) ==
  [left_pulse |-> left_pulse, right_pulse |-> right_pulse,
   pulse |-> map_range(F_0, LEFT_ANGLE, RIGHT_ANGLE, left_pulse, right_pulse).y]

\* the calibration with the zero pulse sent first
PWMThrottle_zero_first(max_pulse, min_pulse, zero_pulse) ==
  [max_pulse |-> max_pulse, min_pulse |-> min_pulse, zero_pulse |-> zero_pulse,
   pulse |-> zero_pulse,
   sent |-> <<set_pulse(zero_pulse, <<FALSE, FALSE>>).angle,
              set_pulse(max_pulse, <<FALSE, FALSE>>).angle,
              set_pulse(min_pulse, <<FALSE, FALSE>>).angle>>]

\* sent are the pulses set_esc_pulse has written, the first MaxSent of them:
\* __init__ writes max_pulse, min_pulse and zero_pulse to calibrate the ESC
PWMThrottle(max_pulse, min_pulse, zero_pulse) ==
  [max_pulse |-> max_pulse, min_pulse |-> min_pulse, zero_pulse |-> zero_pulse,
   pulse |-> zero_pulse,
   sent |-> <<set_pulse(max_pulse, <<FALSE, FALSE>>).angle,
              set_pulse(min_pulse, <<FALSE, FALSE>>).angle,
              set_pulse(zero_pulse, <<FALSE, FALSE>>).angle>>]

\* run of either part once run_threaded has m from map_range: when
\* map_range raised, self.pulse is not assigned and nothing is written
part_run(part, m, fail) ==
  IF m.exc # "None" THEN [part |-> part, exc |-> m.exc, writes |-> 0]
  ELSE [part |-> [part EXCEPT !.pulse = m.y],
        exc |-> set_pulse(m.y, fail).exc,
        writes |-> set_pulse(m.y, fail).writes]

\* PWMSteering.run
PWMSteering_run(s, angle, fail) ==
  part_run(s, map_range(angle, LEFT_ANGLE, RIGHT_ANGLE, s.left_pulse, s.right_pulse),
           fail)

\* PWMThrottle.run_threaded: what map_range returns or raises
PWMThrottle_run_threaded(t, throttle) ==
  IF FGt(throttle, F_0)
  THEN map_range(throttle, 0, MAX_THROTTLE, t.zero_pulse, t.max_pulse)
  ELSE map_range(throttle, MIN_THROTTLE, 0, t.min_pulse, t.zero_pulse)

\* PWMThrottle.run
PWMThrottle_run(t, throttle, fail) ==
  part_run(t, PWMThrottle_run_threaded(t, throttle), fail)

(***************************************************************************)
(* The records the device delivers.  A record is what one read of 8 bytes  *)
(* returns: len bytes (0 at end of file, fewer than 8 for a short read)    *)
(* holding value (int16), typev and number (uint8).                        *)
(***************************************************************************)
MaxRecords == 2

IndexOf(seq, x) == CHOOSE i \in 1..Len(seq) : seq[i] = x

Rec(value, typev, number) ==
  [len |-> 8, value |-> value, typev |-> typev, number |-> number]

ButtonRec(code, value) == Rec(value, 1, IndexOf(DevButtonCodes, code) - 1)
AxisRec(code, value) == Rec(value, 2, IndexOf(DevAxisCodes, code) - 1)

\* a number beyond the device's maps, and a short read
BadRecords ==
  {Rec(1, 1, Len(DevButtonCodes)), Rec(16383, 2, Len(DevAxisCodes)),
   [len |-> 4, value |-> 0, typev |-> 0, number |-> 0]}

\* presses of A, B, Y, L1, R1, back, start and of the unnamed button,
\* releases of R1 and A; left_stick_vert, right_stick_horz, dpad_up_down,
\* L2_pressure and the unnamed axis; both type bits set (button 'B' and axis
\* 'left_stick_vert' share number 1); the initial-state records the kernel
\* sends at open time; the bad records;
\* the end of file
Records ==
  {ButtonRec(code, 1) : code \in {304, 305, 308, 310, 311, 314, 315, 306}}
  \cup {ButtonRec(311, 0), ButtonRec(304, 0)}
  \cup {AxisRec(1, -16383), AxisRec(1, 16383), AxisRec(3, 16383),
        AxisRec(17, -32767), AxisRec(17, 32767), AxisRec(2, 32767),
        AxisRec(6, 16383)}
  \cup {Rec(1, 3, 1)}
  \cup {Rec(1, 129, 0), Rec(-32767, 130, 1), Rec(1, 131, 200)}
  \cup BadRecords
  \cup {[len |-> 0, value |-> 0, typev |-> 0, number |-> 0]}

\* the records of the longer runs: presses of start, the throttle stick,
\* dpad up and dpad down
MaxFocusRecords == 5

FocusRecords ==
  {ButtonRec(315, 1), AxisRec(1, -16383), AxisRec(17, -32767), AxisRec(17, 32767)}

\* the throttle_scale arguments the controller is constructed with
InitScales == {FRat(5, 100), FRat(50, 100), FRat(80, 100)}

FocusScales == {FRat(50, 100)}

(***************************************************************************)
(* State.  ctl is the controller, js its joystick (self.js), update_pc     *)
(* where the polling thread is in update, dev_present whether the device   *)
(* file exists.  The other variables record history: out is what           *)
(* run_threaded returned when the last step was a tick, nrec the number    *)
(* of records read, last the last step, run the emergency-stop sequence    *)
(* under way, tog the modes before the last toggle_mode calls in a row.     *)
(* act is the drive train: the steering and the throttle part, what the    *)
(* last run of each did (servo, esc), whether the vehicle loop is alive,   *)
(* and the last map_range call made on its own (remap).                    *)
(***************************************************************************)
VARIABLES ctl, js, update_pc, dev_present, out, nrec, last, run, tog, act, race

vars == <<ctl, js, update_pc, dev_present, out, nrec, last, run, tog, act, race>>

NoOutput == Output(NoneF, NoneF, "None", FALSE)

NoRecord == [len |-> 0, value |-> 0, typev |-> 0, number |-> 0]

NoStep ==
  [kind |-> "None", rec |-> NoRecord, ev |-> NoEvent, exc |-> "None",
   ops |-> << >>, estop0 |-> ES_IDLE, mode0 |-> "user"]

\* no emergency-stop sequence is followed
NoRun ==
  [active |-> FALSE, done |-> FALSE, diverged |-> FALSE, quiet |-> FALSE,
   scale0 |-> NoneF, ref |-> << >>, outs |-> << >>]

\* what a run of a part did: its input x, the exception that left it, the
\* calls of analog_write it made under fail
NoWrite == [x |-> NoneF, exc |-> "None", writes |-> 0, fail |-> <<FALSE, FALSE>>]

\* the drive train of js_drive.py with the pulses of config.py
ConfigBounds == [steering |-> <<120, 60>>, throttle |-> <<75, 105, 90>>]

\* the two threads between statements: tick is the line of run_threaded the
\* vehicle loop is at and es the line of emergency_stop the polling thread
\* is at, 0 outside the call; pending says an emergency_stop has returned,
\* seen are the states of the emergency-stop sequence run_threaded returned
\* from since the last one did
NoRace == [tick |-> 0, es |-> 0, pending |-> FALSE, seen |-> << >>]

InitWith(scales, bounds) ==
  /\ ctl \in {JoystickController(sc, ar) : sc \in scales, ar \in BOOLEAN}
  /\ act \in {[steering |-> PWMSteering(b.steering[1], b.steering[2]),
               throttle |-> PWMThrottle(b.throttle[1], b.throttle[2], b.throttle[3]),
               servo |-> NoWrite, esc |-> NoWrite,
               remap |-> [x |-> NoneF, args |-> <<0, 0, 0, 0>>, y |-> 0,
                          exc |-> "None", done |-> FALSE],
               alive |-> TRUE] : b \in bounds}
  /\ js = NoJoystick
  /\ update_pc = "init"
  /\ dev_present \in BOOLEAN
  /\ out = NoOutput
  /\ nrec = 0
  /\ last = NoStep
  /\ run = NoRun
  /\ tog = << >>
  /\ race = NoRace

Init == InitWith(InitScales, {ConfigBounds})

InitFocus == InitWith(FocusScales, {ConfigBounds})

\* LogitechJoystickController.init_js: makes the joystick and calls its
\* init, whose result it does not look at
init_js(present) == Joystick_init(Joystick, present)

\* update, its first loop: init_js makes self.js, so the loop ends
UpdateInit ==
  /\ update_pc = "init"
  /\ ctl.running
  /\ js = NoJoystick
  /\ js' = init_js(dev_present)
  /\ update_pc' = "poll"
  /\ last' = [NoStep EXCEPT !.kind = "init_js"]
  /\ out' = NoOutput
  /\ UNCHANGED <<ctl, dev_present, nrec, run, tog, act, race>>

\* the emergency-stop sequence followed after a pass of update's loop
RunAfterPoll(c, ops) ==
  IF run.active THEN [run EXCEPT !.quiet = FALSE, !.outs = << >>]
  ELSE IF \E i \in 1..Len(ops) : ops[i] = "emergency_stop"
  THEN [active |-> TRUE, done |-> FALSE, diverged |-> FALSE, quiet |-> TRUE,
        scale0 |-> c.throttle_scale, ref |-> c, outs |-> << >>]
  ELSE NoRun

\* the modes before each of the last toggle_mode calls in a row, three at
\* most, after a pass of update's loop that found the controller as c
TogAfterPoll(c, ops) ==
  IF ops = << >> THEN tog
  ELSE IF ops = <<"toggle_mode">>
  THEN (IF Len(tog) = 3 THEN Tail(tog) ELSE tog) \o <<c.mode>>
  ELSE << >>

\* update, one pass of its second loop on an open device: poll reads rec,
\* the bound operations run; an exception poll raises ends the thread
UpdatePoll(rec, max) ==
  /\ update_pc = "poll"
  /\ ctl.running
  /\ js.jsdev = "open"
  /\ nrec < max
  /\ \E p \in {poll(js, rec)} :
       \E ops \in {IF p.exc = "None" THEN dispatched(p.ev) ELSE << >>} :
       \E c \in {IF p.exc = "None" THEN dispatch(ctl, p.ev) ELSE ctl} :
         /\ js' = p.js
         /\ ctl' = c
         /\ update_pc' = IF p.exc = "None" THEN "poll" ELSE "dead"
         /\ last' = [kind |-> "poll", rec |-> rec, ev |-> p.ev, exc |-> p.exc,
                     ops |-> ops, estop0 |-> ctl.estop_state, mode0 |-> ctl.mode]
         /\ run' = RunAfterPoll(c, ops)
         /\ tog' = TogAfterPoll(ctl, ops)
  /\ nrec' = nrec + 1
  /\ out' = NoOutput
  /\ UNCHANGED <<dev_present, act, race>>

\* the same pass when init opened no device: poll returns at once
UpdatePollClosed ==
  /\ update_pc = "poll"
  /\ ctl.running
  /\ js.jsdev = "None"
  /\ last' = [NoStep EXCEPT !.kind = "poll"]
  /\ out' = NoOutput
  /\ UNCHANGED <<ctl, js, update_pc, dev_present, nrec, run, tog, act, race>>

\* the emergency-stop sequence followed after a tick that returned o and
\* left the controller as c
RunAfterTick(c, o) ==
  IF ~run.active THEN run
  ELSE LET t == run_threaded(run.ref)
           same == /\ FEq(o.throttle, t.out.throttle)
                   /\ (c.estop_state = ES_IDLE) = (t.c.estop_state = ES_IDLE)
           over == t.c.estop_state = ES_IDLE
       IN  [run EXCEPT !.active = same /\ ~over,
                       !.done = same /\ over,
                       !.diverged = ~same,
                       !.ref = t.c,
                       !.outs = IF run.quiet THEN Append(run.outs, o) ELSE << >>]

\* the vehicle loop's call of run_threaded
Tick ==
  \E r \in {run_threaded(ctl)} :
      /\ ctl' = r.c
      /\ out' = r.out
      /\ last' = [NoStep EXCEPT !.kind = "tick", !.estop0 = ctl.estop_state,
                                !.mode0 = ctl.mode]
      /\ run' = RunAfterTick(r.c, r.out)
      /\ UNCHANGED <<js, update_pc, dev_present, nrec, tog, act, race>>

\* the device is plugged in
Plug ==
  /\ ~dev_present
  /\ dev_present' = TRUE
  /\ UNCHANGED <<ctl, js, update_pc, out, nrec, last, run, tog, act, race>>

Next ==
  \/ UpdateInit
  \/ \E rec \in Records : UpdatePoll(rec, MaxRecords)
  \/ UpdatePollClosed
  \/ Tick
  \/ Plug

Spec == Init /\ [][Next]_vars

\* longer runs over fewer records
NextFocus ==
  \/ UpdateInit
  \/ \E rec \in FocusRecords : UpdatePoll(rec, MaxFocusRecords)
  \/ UpdatePollClosed
  \/ Tick
  \/ Plug

SpecFocus == InitFocus /\ [][NextFocus]_vars

\* runs on the throttle scale: 'back', the throttle stick, dpad up and dpad
\* down, from a throttle_scale next to either end
NextScale ==
  \/ UpdateInit
  \/ \E rec \in {ButtonRec(314, 1), AxisRec(1, -16383), AxisRec(17, -32767),
                 AxisRec(17, 32767)} : UpdatePoll(rec, MaxFocusRecords)
  \/ UpdatePollClosed
  \/ Tick
  \/ Plug

SpecScale ==
  InitWith({FRat(1, 100), FRat(99, 100)}, {ConfigBounds}) /\ [][NextScale]_vars

(***************************************************************************)
(* map_range on its own, called once: the bounds are drawn from XRanges    *)
(* and YRanges, x from the points of the X range.                          *)
(***************************************************************************)
XRanges == {<<-1, 1>>, <<0, 1>>, <<-1, 0>>, <<1, -1>>, <<1, 0>>}
YRanges == {0, 49, 60, 75, 90, 93, 105, 120} \X {0, 49, 60, 75, 90, 93, 105, 120}

Remap(x, xr, yr) ==
  /\ ~act.remap.done
  /\ \E m \in {map_range(x, xr[1], xr[2], yr[1], yr[2])} :
       act' = [act EXCEPT !.remap = [x |-> x, args |-> <<xr[1], xr[2], yr[1], yr[2]>>,
                                      y |-> m.y, exc |-> m.exc, done |-> TRUE]]
  /\ UNCHANGED <<ctl, js, update_pc, dev_present, out, nrec, last, run, tog, race>>

\* x is an end of the X range, its middle or a quarter of the way
NextRemap ==
  \E xr \in XRanges, yr \in YRanges :
    \E k \in 0..4 :
      Remap(FAdd(FInt(xr[1]), FDiv(FInt(k * (xr[2] - xr[1])), FInt(4))), xr, yr)

SpecRemap == InitFocus /\ [][NextRemap]_vars

(***************************************************************************)
(* The vehicle loop of js_drive.py: each pass calls run_threaded of the    *)
(* controller, then run of the steering part on 'user/angle' and run of    *)
(* the throttle part on 'user/throttle'.  An exception that leaves a part  *)
(* ends the loop.                                                          *)
(***************************************************************************)
\* the pulses the throttle part is constructed with: its defaults, those of
\* config.py, min_pulse = zero_pulse, zero_pulse = max_pulse, and a span of 93
DriveBounds ==
  {[steering |-> <<120, 60>>, throttle |-> t] :
     t \in {<<105, 75, 90>>, <<75, 105, 90>>, <<105, 90, 90>>, <<90, 75, 90>>,
            <<100, 0, 93>>}}

\* the throttle stick and the steering stick
DriveRecords == {AxisRec(1, -16383), AxisRec(1, 16383), AxisRec(3, 16383)}

\* one pass: fs and ft say which analog_write calls raise under the servo's
\* and the ESC's set_pulse
DrivePass(fs, ft) ==
  /\ act.alive
  /\ \E r \in {run_threaded(ctl)} :
     \E s \in {PWMSteering_run(act.steering, r.out.angle, fs)} :
     \E t \in {PWMThrottle_run(act.throttle, r.out.throttle, ft)} :
       /\ ctl' = r.c
       /\ out' = r.out
       /\ last' = [NoStep EXCEPT !.kind = "tick", !.estop0 = ctl.estop_state,
                                 !.mode0 = ctl.mode]
       /\ run' = RunAfterTick(r.c, r.out)
       /\ act' = [act EXCEPT
            !.steering = s.part,
            !.servo = [x |-> r.out.angle, exc |-> s.exc, writes |-> s.writes,
                       fail |-> fs],
            !.throttle =
               IF s.exc # "None" THEN @
               ELSE IF t.exc = "None" /\ t.writes > 0 /\ Len(t.part.sent) < MaxSent
               THEN [t.part EXCEPT !.sent = Append(@, t.part.pulse)]
               ELSE t.part,
            !.esc = IF s.exc = "None"
                    THEN [x |-> r.out.throttle, exc |-> t.exc, writes |-> t.writes,
                          fail |-> ft]
                    ELSE NoWrite,
            !.alive = s.exc = "None" /\ t.exc = "None"]
  /\ UNCHANGED <<js, update_pc, dev_present, nrec, tog, race>>

\* the controller has the throttle_scale of config.py
NextDrive ==
  \/ UpdateInit
  \/ \E rec \in DriveRecords : UpdatePoll(rec, MaxRecords)
  \/ UpdatePollClosed
  \/ \E fs, ft \in {<<FALSE, FALSE>>, <<TRUE, FALSE>>, <<TRUE, TRUE>>} :
       DrivePass(fs, ft)
  \/ Plug

SpecDrive == InitWith({FRat(80, 100)}, DriveBounds) /\ [][NextDrive]_vars

(***************************************************************************)
(* emergency_stop and run_threaded statement by statement.  update runs on  *)
(* its own thread and the vehicle loop on the main thread; no lock guards   *)
(* the controller's attributes, so the statements of the two interleave.   *)
(* The numbers are the lines of joystick_part.py.                          *)
(***************************************************************************)
MaxRaceRecords == 2

\* the controller after the statement of emergency_stop at line pc
emergency_stop_at(c, pc) ==
  CASE pc = 320 -> [c EXCEPT !.mode = "user"]
    [] pc = 321 -> [c EXCEPT !.recording = FALSE]
    [] pc = 322 -> [c EXCEPT !.constant_throttle = FALSE]
    [] pc = 323 -> [c EXCEPT !.estop_state = ES_START]
    [] pc = 324 -> [c EXCEPT !.throttle = F_0]

\* run_threaded at line pc: the controller after the statement, the line
\* that follows (0 when it returns) and the tuple returned
run_threaded_at(c, pc) ==
  CASE pc = 0 -> [c |-> c, pc |-> 464, out |-> NoOutput]
    [] pc = 464 -> [c |-> c, pc |-> IF c.estop_state > ES_IDLE THEN 465 ELSE 482,
                    out |-> NoOutput]
    [] pc = 465 -> [c |-> c, pc |-> IF c.estop_state = ES_START THEN 466 ELSE 468,
                    out |-> NoOutput]
    [] pc = 466 -> [c |-> [c EXCEPT !.estop_state = ES_THROTTLE_NEG_ONE],
                    pc |-> 467, out |-> NoOutput]
    [] pc = 467 -> [c |-> c, pc |-> 0,
                    out |-> Output(F_0, FMul(F_minus_1, c.throttle_scale), c.mode, FALSE)]
    [] pc = 468 -> [c |-> c,
                    pc |-> IF c.estop_state = ES_THROTTLE_NEG_ONE THEN 469 ELSE 471,
                    out |-> NoOutput]
    [] pc = 469 -> [c |-> [c EXCEPT !.estop_state = ES_THROTTLE_POS_ONE],
                    pc |-> 470, out |-> NoOutput]
    [] pc = 470 -> [c |-> c, pc |-> 0, out |-> Output(F_0, F_0_01, c.mode, FALSE)]
    [] pc = 471 -> [c |-> c,
                    pc |-> IF c.estop_state = ES_THROTTLE_POS_ONE THEN 472 ELSE 475,
                    out |-> NoOutput]
    [] pc = 472 -> [c |-> [c EXCEPT !.estop_state = ES_THROTTLE_NEG_TWO],
                    pc |-> 473, out |-> NoOutput]
    [] pc = 473 -> [c |-> [c EXCEPT !.throttle = FMul(F_minus_1, c.throttle_scale)],
                    pc |-> 474, out |-> NoOutput]
    [] pc = 474 -> [c |-> c, pc |-> 0, out |-> Output(F_0, c.throttle, c.mode, FALSE)]
    [] pc = 475 -> [c |-> c,
                    pc |-> IF c.estop_state = ES_THROTTLE_NEG_TWO THEN 476 ELSE 482,
                    out |-> NoOutput]
    [] pc = 476 -> [c |-> [c EXCEPT !.throttle = FAdd(c.throttle, F_0_05)],
                    pc |-> 477, out |-> NoOutput]
    [] pc = 477 -> [c |-> c, pc |-> IF FGe(c.throttle, F_0) THEN 478 ELSE 480,
                    out |-> NoOutput]
    [] pc = 478 -> [c |-> [c EXCEPT !.throttle = F_0], pc |-> 479, out |-> NoOutput]
    [] pc = 479 -> [c |-> [c EXCEPT !.estop_state = ES_IDLE], pc |-> 480,
                    out |-> NoOutput]
    [] pc = 480 -> [c |-> c, pc |-> 0, out |-> Output(F_0, c.throttle, c.mode, FALSE)]
    [] pc = 482 -> [c |-> c, pc |-> 0, out |-> no_estop(c).out]

\* the state of the emergency-stop sequence whose return statement is at
\* line pc
returned_state(pc) ==
  CASE pc = 467 -> ES_START
    [] pc = 470 -> ES_THROTTLE_NEG_ONE
    [] pc = 474 -> ES_THROTTLE_POS_ONE
    [] pc = 480 -> ES_THROTTLE_NEG_TWO
    [] OTHER -> ES_IDLE

\* update reads a press of A and calls emergency_stop
EStopCall ==
  /\ update_pc = "poll"
  /\ ctl.running
  /\ js.jsdev = "open"
  /\ race.es = 0
  /\ nrec < MaxRaceRecords
  /\ \E p \in {poll(js, ButtonRec(304, 1))} :
       /\ dispatched(p.ev) = <<"emergency_stop">>
       /\ js' = p.js
       /\ last' = [kind |-> "poll", rec |-> ButtonRec(304, 1), ev |-> p.ev,
                   exc |-> p.exc, ops |-> dispatched(p.ev),
                   estop0 |-> ctl.estop_state, mode0 |-> ctl.mode]
  /\ nrec' = nrec + 1
  /\ race' = [race EXCEPT !.es = 320]
  /\ UNCHANGED <<ctl, update_pc, dev_present, out, run, tog, act>>

\* the polling thread runs one statement of emergency_stop
EStopStep ==
  /\ race.es # 0
  /\ ctl' = emergency_stop_at(ctl, race.es)
  /\ race' = [race EXCEPT !.es = IF @ = 324 THEN 0 ELSE @ + 1,
                          !.pending = @ \/ race.es = 324,
                          !.seen = IF race.es = 324 THEN << >> ELSE @]
  /\ UNCHANGED <<js, update_pc, dev_present, out, nrec, last, run, tog, act>>

\* the vehicle loop runs one statement of run_threaded
TickStep ==
  \E r \in {run_threaded_at(ctl, race.tick)} :
    /\ ctl' = r.c
    /\ out' = IF r.pc = 0 THEN r.out ELSE out
    /\ race' = [race EXCEPT
         !.tick = r.pc,
         !.seen = IF returned_state(race.tick) = ES_IDLE THEN @
                  ELSE IF @ # << >> /\ @[Len(@)] = returned_state(race.tick) THEN @
                  ELSE Append(@, returned_state(race.tick))]
    /\ UNCHANGED <<js, update_pc, dev_present, nrec, last, run, tog, act>>

NextRace ==
  \/ UpdateInit
  \/ EStopCall
  \/ EStopStep
  \/ UpdatePollClosed
  \/ TickStep
  \/ Plug

SpecRace == InitWith({FRat(5, 100), FRat(50, 100)}, {ConfigBounds}) /\ [][NextRace]_vars

(***************************************************************************)
(* Properties.  A sequence is quiet when no record was read since the     *)
(* emergency_stop that started it; run.outs are then the tuples the ticks  *)
(* of the sequence returned, run.scale0 the throttle_scale it started with *)
(***************************************************************************)
Dispatched(op) ==
  /\ last.kind = "poll"
  /\ \E i \in 1..Len(last.ops) : last.ops[i] = op

SteeringZero == \A i \in 1..Len(run.outs) : FEq(run.outs[i].angle, F_0)

\* the additions of 0.05 that bring -throttle_scale to 0.0 or above in exact
\* arithmetic, for the throttle_scale of the sequence
RampSteps ==
  LET k == BToInt(FHundredths(run.scale0))
  IN  IF k <= 5 THEN 1 ELSE (k + 4) \div 5

\* C1 as stated: with no further input the state machine is back in
\* ES_IDLE with throttle 0.0 after exactly 4 ticks, whatever throttle_scale
\* is, and every tick of the sequence returns steering 0.0
C1_FourTicks ==
  (run.quiet /\ Len(run.outs) = 4) =>
     /\ run.done
     /\ ctl.estop_state = ES_IDLE
     /\ FEq(ctl.throttle, F_0)
     /\ SteeringZero

\* C1: with no further input every tick of the sequence returns steering
\* 0.0; the state machine is not back in ES_IDLE before 4 ticks, is back
\* after exactly 4 ticks iff throttle_scale <= 0.05, and in general is back,
\* with throttle 0.0, after 3 + n ticks, n being RampSteps or, where the
\* binary sum falls just short of 0.0, one more
C1_EStopTermination ==
  run.quiet =>
     /\ SteeringZero
     /\ Len(run.outs) < 4 => (~run.done /\ ctl.estop_state # ES_IDLE)
     /\ Len(run.outs) = 4 => (run.done <=> FLe(run.scale0, F_0_05))
     /\ Len(run.outs) <= 4 + RampSteps
     /\ run.done =>
          /\ Len(run.outs) \in {3 + RampSteps, 4 + RampSteps}
          /\ ctl.estop_state = ES_IDLE
          /\ FEq(ctl.throttle, F_0)
          /\ FEq(run.outs[Len(run.outs)].throttle, F_0)

\* a sequence of more than 4 ticks has ended, the steering stick deflected
C1_Witness ==
  /\ run.quiet
  /\ run.done
  /\ Len(run.outs) > 4
  /\ ~FEq(ctl.angle, F_0)

\* the decimal values C2 gives for ticks 1 to 13 at throttle_scale 0.5
HalfScaleThrottle ==
  [i \in 1..13 |->
     IF i = 2 THEN FRat(1, 100)
     ELSE IF i \in {1, 3} THEN FRat(-50, 100)
     ELSE FRat(5 * (i - 3) - 50, 100)]

Tolerance == FRat(1, 1000000000)

Near(a, b) == FLt(FAbs(FSub(a, b)), Tolerance)

HalfScaleValue == FRat(50, 100)

HalfScale == run.quiet /\ FEq(run.scale0, HalfScaleValue)

\* C2 as stated: at throttle_scale 0.5 the ticks return -0.5, 0.01, -0.5,
\* -0.45, and the state machine is in ES_IDLE with throttle 0.0 after 12
\* ticks
C2_TwelveTicks ==
  HalfScale =>
     /\ \A i \in 1..Len(run.outs) :
          i <= 4 => FEq(run.outs[i].throttle, HalfScaleThrottle[i])
     /\ Len(run.outs) <= 12
     /\ Len(run.outs) = 12 =>
          /\ run.done
          /\ ctl.estop_state = ES_IDLE
          /\ FEq(run.outs[12].throttle, F_0)

\* C2: at throttle_scale 0.5 the ticks return -0.5, 0.01, -0.5, -0.45, then
\* 0.05 more per tick up to rounding; tick 13 still returns a throttle
\* below 0.0, and the state machine is in ES_IDLE with throttle 0.0 after
\* 14 ticks, not before
C2_HalfScaleSequence ==
  HalfScale =>
     /\ \A i \in 1..Len(run.outs) :
          /\ i <= 4 => FEq(run.outs[i].throttle, HalfScaleThrottle[i])
          /\ i < 14 => Near(run.outs[i].throttle, HalfScaleThrottle[i])
          /\ (i < 14 /\ i # 2) => FLt(run.outs[i].throttle, F_0)
          /\ i = 14 => FEq(run.outs[i].throttle, F_0)
     /\ Len(run.outs) <= 14
     /\ run.done <=> Len(run.outs) = 14
     /\ (ctl.estop_state = ES_IDLE) <=> Len(run.outs) = 14

\* the sequence at throttle_scale 0.5 has ended
C2_Witness == HalfScale /\ run.done /\ Len(run.outs) = 14

\* C3: the ticks after emergency_stop return the throttle values, and end
\* in ES_IDLE after the number of ticks, of the sequence that no record
\* interrupts, whatever the polling loop dispatches between them
C3_InputIndependent == ~run.diverged

Stopped(c) ==
  /\ c.mode = "user"
  /\ ~c.recording
  /\ ~c.constant_throttle
  /\ FEq(c.throttle, F_0)
  /\ c.estop_state = ES_START

\* C4: after emergency_stop, whatever state it was invoked in, mode is user,
\* recording and constant_throttle are false, throttle is 0.0 and
\* estop_state is ES_START: so it is after the pass of update's loop that
\* invoked it, and so it would be were it invoked in the state reached
C4_EmergencyStop ==
  /\ Dispatched("emergency_stop") => Stopped(ctl)
  /\ Stopped(emergency_stop(ctl))

\* emergency_stop was invoked in another mode than user
C4_Witness == Dispatched("emergency_stop") /\ last.mode0 # "user"

\* C5: a tick with estop_state ES_IDLE and chaos_monkey_steering set
\* returns (chaos_monkey_steering, throttle, mode, False)
C5_OverridePrecedence ==
  (last.kind = "tick" /\ last.estop0 = ES_IDLE /\ ~IsNone(ctl.chaos_monkey_steering)) =>
     out = Output(ctl.chaos_monkey_steering, ctl.throttle, ctl.mode, FALSE)

\* such a tick, the steering stick deflected to another value than the bias
C5_Witness ==
  /\ last.kind = "tick"
  /\ last.estop0 = ES_IDLE
  /\ ~IsNone(ctl.chaos_monkey_steering)
  /\ ~FEq(ctl.angle, F_0)
  /\ ~FEq(ctl.angle, ctl.chaos_monkey_steering)

\* the mode the cycle user -> local_angle -> local -> user puts after m
ModeAfter(m) ==
  CASE m = "user" -> "local_angle"
    [] m = "local_angle" -> "local"
    [] m = "local" -> "user"

\* C6: toggle_mode invocations in a row, nothing else invoked between them,
\* follow user -> local_angle -> local -> user, and three of them in a row
\* leave the mode the first one found, whichever it was
C6_ModeCycle ==
  /\ \A i \in 1..(Len(tog) - 1) : tog[i + 1] = ModeAfter(tog[i])
  /\ Len(tog) >= 1 => ctl.mode = ModeAfter(tog[Len(tog)])
  /\ Len(tog) = 3 => ctl.mode = tog[1]

\* three toggle_mode invocations in a row that began in mode local
C6_Witness == Len(tog) = 3 /\ tog[1] = "local"

\* C7: with constant_throttle true and estop_state ES_IDLE, throttle equals
\* throttle_scale; toggle_constant_throttle turning it off leaves throttle
\* 0.0 and the recording flag re-evaluated
C7_ConstantThrottlePinned ==
  /\ (ctl.constant_throttle /\ ctl.estop_state = ES_IDLE) =>
        FEq(ctl.throttle, ctl.throttle_scale)
  /\ (Dispatched("toggle_constant_throttle") /\ ~ctl.constant_throttle) =>
        /\ FEq(ctl.throttle, F_0)
        /\ ctl.auto_record_on_throttle => ~ctl.recording

\* the pass of update's loop invoked increase_max_throttle or
\* decrease_max_throttle
ScaleChanged ==
  /\ Dispatched("on_axis_dpad_UD")
  /\ FEq(FAbs(last.ev.axis_val), F_1)

\* C8: after increase_max_throttle or decrease_max_throttle, with
\* auto_record_on_throttle on, recording is
\* (abs(throttle) > dead_zone and mode == 'user')
C8_RecordingReevaluated ==
  (ScaleChanged /\ ctl.auto_record_on_throttle) =>
     ctl.recording = (FGt(FAbs(ctl.throttle), ctl.dead_zone) /\ ctl.mode = "user")

IsInitEvent(rec) == rec.len = 8 /\ (rec.typev \div 128) % 2 = 1

\* C9: a pass of update's loop that reads a record with bit 0x80 of typev
\* set leaves axis_states and button_states as they are, poll returns no
\* button and no axis, and nothing is invoked, whatever the value, the
\* number and the bits 0x01 and 0x02 of the record
C9_InitEventsDiscarded ==
  [][\A rec \in Records :
       (IsInitEvent(rec) /\ UpdatePoll(rec, MaxRecords)) =>
          /\ js' = js
          /\ ctl' = ctl
          /\ update_pc' = "poll"
          /\ last'.ev = NoEvent
          /\ last'.ops = << >>]_vars

\* the record read had bits 0x80 and 0x01 set, value 1 and the number of
\* button a, which stays 0
C9_Witness ==
  /\ last.kind = "poll"
  /\ last.rec = Rec(1, 129, 0)
  /\ js.button_states[js.button_map[1]] = 0

\* C10: a record of 8 bytes whose number is past the end of the map, or a
\* shorter record, produces no event and leaves update's loop running
C10_LoopSurvives ==
  (last.kind = "poll" /\ last.rec \in BadRecords) =>
     /\ update_pc = "poll"
     /\ last.exc = "None"
     /\ last.ev = NoEvent

\* the threads keep running: update's loops and the vehicle loop take their
\* steps
SpecLive ==
  /\ InitFocus
  /\ [][NextFocus]_vars
  /\ WF_vars(UpdateInit)
  /\ WF_vars(UpdatePollClosed)
  /\ WF_vars(Tick)

Opened == ~js.is_None /\ js.jsdev = "open"

\* C11: once the device file is there, update eventually has the joystick
\* opened
C11_EventuallyInitialized == dev_present ~> Opened

(***************************************************************************)
(* The drive train                                                         *)
(***************************************************************************)
\* the last pass ran the throttle part, on throttle 0.0
ThrottleRanOnZero == act.esc.x # NoneF /\ FIsZero(act.esc.x)

ValidBounds(t) == t.min_pulse <= t.zero_pulse /\ t.zero_pulse <= t.max_pulse

\* C12: with min_pulse <= zero_pulse <= max_pulse, run of the throttle part
\* on throttle 0 gets a pulse from map_range, and the pulse is zero_pulse
C12_ZeroThrottlePulse ==
  (ThrottleRanOnZero /\ ValidBounds(act.throttle)) =>
     /\ act.esc.exc # "ZeroDivisionError"
     /\ act.throttle.pulse = act.throttle.zero_pulse

\* the last map_range call, on Y bounds that differ
Remapped == act.remap.done /\ act.remap.args[3] # act.remap.args[4]

\* C13: map_range returns a value between Y_min and Y_max, whichever is
\* the larger, Y_min at X_min and Y_max at X_max
C13_RemapRange ==
  Remapped =>
    /\ act.remap.exc = "None"
    /\ \/ act.remap.args[3] <= act.remap.y /\ act.remap.y <= act.remap.args[4]
       \/ act.remap.args[4] <= act.remap.y /\ act.remap.y <= act.remap.args[3]
    /\ FEq(act.remap.x, FInt(act.remap.args[1])) => act.remap.y = act.remap.args[3]
    /\ FEq(act.remap.x, FInt(act.remap.args[2])) => act.remap.y = act.remap.args[4]

\* the throttle stick is at raw value -16383 and the last step was a pass
\* that ran the throttle part, which has the pulses (min=75, zero=90, max=105)
HalfStickPass ==
  /\ last.kind = "tick"
  /\ act.esc.x # NoneF
  /\ FEq(ctl.last_throttle_axis_val, FDiv(FInt(-16383), FInt(32767)))
  /\ act.throttle.min_pulse = 75
  /\ act.throttle.zero_pulse = 90
  /\ act.throttle.max_pulse = 105

HalfStickThrottle ==
  FEq(out.throttle,
      FMul(FMul(FInt(-1), FDiv(FInt(-16383), FInt(32767))), FRat(80, 100)))

\* C14 as stated: the pass has throttle (-1.0) * (-16383/32767) * 0.8 and
\* throttle pulse 96
C14_Pulse96 == HalfStickPass => (HalfStickThrottle /\ act.throttle.pulse = 96)

\* C14: the pass has throttle (-1.0) * (-16383/32767) * 0.8 and throttle
\* pulse 95
C14_Pulse95 == HalfStickPass => (HalfStickThrottle /\ act.throttle.pulse = 95)

C14_Witness == HalfStickPass /\ act.esc.exc = "None" /\ act.throttle.pulse = 95

\* a run w of a part that called set_pulse made one call of analog_write,
\* a second one when the first raised, and no exception left it
RetriedOnce(w) ==
  w.writes > 0 =>
    /\ w.writes = (IF w.fail[1] THEN 2 ELSE 1)
    /\ w.exc = "None"

\* C15: a write that fails is tried once more, and a second failure leaves
\* neither set_servo_pulse nor set_esc_pulse as an exception
C15_WriteDropped == RetriedOnce(act.servo) /\ RetriedOnce(act.esc)

(***************************************************************************)
(* The emergency-stop state machine, step by step                          *)
(***************************************************************************)
\* C16: a tick with estop_state above ES_IDLE returns angle 0.0 and
\* recording False whatever angle and chaos_monkey_steering are, and:
\* ES_START returns -1.0 * throttle_scale and goes to ES_THROTTLE_NEG_ONE;
\* that returns 0.01 and goes to ES_THROTTLE_POS_ONE; that stores and
\* returns -1.0 * throttle_scale and goes to ES_THROTTLE_NEG_TWO; that adds
\* 0.05 to throttle and, when the sum is 0.0 or more, stores 0.0 and goes
\* to ES_IDLE
C16_EStopTable ==
  [][(Tick /\ ctl.estop_state # ES_IDLE) =>
       /\ FEq(out'.angle, F_0)
       /\ out'.recording = FALSE
       /\ ctl.estop_state = ES_START =>
            /\ FEq(out'.throttle, FMul(F_minus_1, ctl.throttle_scale))
            /\ ctl'.estop_state = ES_THROTTLE_NEG_ONE
       /\ ctl.estop_state = ES_THROTTLE_NEG_ONE =>
            /\ FEq(out'.throttle, F_0_01)
            /\ ctl'.estop_state = ES_THROTTLE_POS_ONE
       /\ ctl.estop_state = ES_THROTTLE_POS_ONE =>
            /\ FEq(out'.throttle, FMul(F_minus_1, ctl.throttle_scale))
            /\ FEq(ctl'.throttle, out'.throttle)
            /\ ctl'.estop_state = ES_THROTTLE_NEG_TWO
       /\ (/\ ctl.estop_state = ES_THROTTLE_NEG_TWO
           /\ FGe(FAdd(ctl.throttle, F_0_05), F_0)) =>
            /\ FEq(ctl'.throttle, F_0)
            /\ FEq(out'.throttle, F_0)
            /\ ctl'.estop_state = ES_IDLE
       /\ (/\ ctl.estop_state = ES_THROTTLE_NEG_TWO
           /\ FLt(FAdd(ctl.throttle, F_0_05), F_0)) =>
            /\ FEq(ctl'.throttle, FAdd(ctl.throttle, F_0_05))
            /\ FEq(out'.throttle, ctl'.throttle)
            /\ ctl'.estop_state = ES_THROTTLE_NEG_TWO]_vars

\* the tick out of ES_START was taken with the steering stick off centre
C16_Witness ==
  /\ last.kind = "tick"
  /\ last.estop0 = ES_START
  /\ ~FIsZero(ctl.angle)
  /\ FIsZero(out.angle)
  /\ ctl.estop_state = ES_THROTTLE_NEG_ONE

(***************************************************************************)
(* What the operations change.  last.mode0 is the mode the last step found *)
(***************************************************************************)
\* the last step invoked toggle_mode and nothing else, and the mode is the
\* one after last.mode0 in the cycle
Toggled == last.kind = "poll" /\ last.ops = <<"toggle_mode">> /\ ctl.mode = ModeAfter(last.mode0)

\* C17 as stated: a step leaves the mode as it was or is a toggle_mode that
\* puts the next mode of the cycle
C17_OnlyToggleMode == ctl.mode = last.mode0 \/ Toggled

\* C17: a step leaves the mode as it was, is a toggle_mode that puts the
\* next mode of the cycle, or is an emergency_stop, which puts 'user'
C17_ToggleOrEStop ==
  \/ ctl.mode = last.mode0
  \/ Toggled
  \/ Dispatched("emergency_stop") /\ ctl.mode = "user"

\* emergency_stop was invoked in mode local_angle
C17_Witness ==
  Dispatched("emergency_stop") /\ last.mode0 = "local_angle" /\ ctl.mode = "user"

\* the controller d that run_threaded leaves of c: whether it has the
\* mode, angle, recording flag and chaos_monkey_steering of c, and whether
\* it has its throttle and estop_state too
TickKeepsInputs(c, d) ==
  /\ d.mode = c.mode
  /\ d.angle = c.angle
  /\ d.recording = c.recording
  /\ d.chaos_monkey_steering = c.chaos_monkey_steering

TickKeepsAll(c, d) ==
  TickKeepsInputs(c, d) /\ d.throttle = c.throttle /\ d.estop_state = c.estop_state

\* C18 as stated: run_threaded, called in any reachable state, changes
\* none of mode, throttle, angle, recording, estop_state and
\* chaos_monkey_steering
C18_TickReadsOnly == TickKeepsAll(ctl, run_threaded(ctl).c)

\* C18: run_threaded, called in any reachable state, changes none of mode,
\* angle, recording and chaos_monkey_steering, and changes throttle and
\* estop_state only when estop_state is above ES_IDLE
C18_TickWritesEStopOnly ==
  /\ TickKeepsInputs(ctl, run_threaded(ctl).c)
  /\ ctl.estop_state = ES_IDLE => TickKeepsAll(ctl, run_threaded(ctl).c)
  /\ last.kind = "tick" => ctl.mode = last.mode0

\* a tick has just stored -throttle_scale and moved to ES_THROTTLE_NEG_TWO,
\* with the steering stick off centre
C18_Witness ==
  /\ last.kind = "tick"
  /\ last.estop0 = ES_THROTTLE_POS_ONE
  /\ ctl.estop_state = ES_THROTTLE_NEG_TWO
  /\ ~FIsZero(ctl.throttle)
  /\ ~FIsZero(ctl.angle)

\* throttle_scale is k hundredths before the step and n hundredths after it
ScaleStep(k, n) ==
  /\ FEq(ctl.throttle_scale, FRat(k, 100))
  /\ FEq(ctl'.throttle_scale, FRat(n, 100))

\* throttle after the step is what the new throttle_scale makes of the last
\* value of the throttle stick, or the new throttle_scale itself under
\* constant_throttle
Rescaled ==
  FEq(ctl'.throttle,
      IF ctl.constant_throttle THEN ctl'.throttle_scale
      ELSE FMul(FMul(ctl.throttle_dir, ctl.last_throttle_axis_val),
                ctl'.throttle_scale))

\* C19: dpad up adds 0.01 to throttle_scale, up to 1.0, dpad down takes
\* 0.01 off it, down to 0.0, and both set throttle from the new scale
C19_ScaleStepClamped ==
  [][/\ UpdatePoll(AxisRec(17, -32767), MaxFocusRecords) =>
          /\ \E k \in 0..100 : ScaleStep(k, IF k = 100 THEN 100 ELSE k + 1)
          /\ Rescaled
     /\ UpdatePoll(AxisRec(17, 32767), MaxFocusRecords) =>
          /\ \E k \in 0..100 : ScaleStep(k, IF k = 0 THEN 0 ELSE k - 1)
          /\ Rescaled]_vars

\* dpad up has left throttle_scale at 1.0 under constant_throttle, and
\* throttle with it
C19_Witness ==
  /\ Dispatched("on_axis_dpad_UD")
  /\ FEq(last.ev.axis_val, F_minus_1)
  /\ ctl.constant_throttle
  /\ FEq(ctl.throttle_scale, F_1)
  /\ FEq(ctl.throttle, F_1)
  /\ nrec = MaxFocusRecords

\* the controller after the step has throttle_dir * value * throttle_scale
\* as throttle; recording is abs(throttle) > dead_zone and mode 'user' with
\* auto_record_on_throttle, and what it was without
ThrottleSet(value) ==
  /\ FEq(ctl'.throttle, FMul(FMul(ctl.throttle_dir, value), ctl.throttle_scale))
  /\ ctl.auto_record_on_throttle =>
       (ctl'.recording <=>
          (FGt(FAbs(ctl'.throttle), ctl.dead_zone) /\ ctl.mode = "user"))
  /\ ~ctl.auto_record_on_throttle => (ctl'.recording <=> ctl.recording)

\* the controller after the step differs from the one before in angle only,
\* which is steering_scale * value
SteeringSet(value) ==
  ctl' = [ctl EXCEPT !.angle = FMul(ctl.steering_scale, value)]

\* C20: an event of the throttle stick sets throttle to throttle_dir * value *
\* throttle_scale and re-evaluates recording under auto_record_on_throttle
\* only; an event of the steering stick sets angle to steering_scale * value
\* and nothing else
C20_SetThrottleSetSteering ==
  [][/\ \A v \in {-16383, 16383} :
          UpdatePoll(AxisRec(1, v), MaxRecords) => ThrottleSet(normalized[v])
     /\ UpdatePoll(AxisRec(3, 16383), MaxRecords) =>
          SteeringSet(normalized[16383])]_vars

\* the throttle stick has moved in mode 'user' with auto_record_on_throttle:
\* recording is on
C20_Witness ==
  /\ Dispatched("set_throttle")
  /\ ctl.auto_record_on_throttle
  /\ ctl.mode = "user"
  /\ ~FIsZero(ctl.throttle)
  /\ ctl.recording

\* what poll returned names an axis of the axis table; a button of the
\* button-down table in a state >= 1; a button of the button-up table in
\* state 0
AxisBound(ev) == ev.axis # "None" /\ ev.axis \in DOMAIN axis_trigger_map
DownBound(ev) ==
  /\ ev.button # "None"
  /\ ev.button_state >= 1
  /\ ev.button \in DOMAIN button_down_trigger_map
UpBound(ev) ==
  /\ ev.button # "None"
  /\ ev.button_state = 0
  /\ ev.button \in DOMAIN button_up_trigger_map

\* the controller c after the axis operation, the button-down operation and
\* the button-up operation that ev is bound to
AfterAxis(c, ev) ==
  IF AxisBound(ev) THEN call_axis(axis_trigger_map[ev.axis], c, ev.axis_val) ELSE c
AfterDown(c, ev) ==
  IF DownBound(ev) THEN call_button(button_down_trigger_map[ev.button], c) ELSE c
AfterUp(c, ev) ==
  IF UpBound(ev) THEN call_button(button_up_trigger_map[ev.button], c) ELSE c

\* the pass on what poll returned as ev invoked the operations ops and left
\* the controller as d: each bound operation exactly when its condition
\* holds, the axis operation before the button operation
DispatchRule(c, d, ev, ops) ==
  /\ ops = (IF AxisBound(ev) THEN <<axis_trigger_map[ev.axis]>> ELSE << >>)
           \o (IF DownBound(ev) THEN <<button_down_trigger_map[ev.button]>> ELSE << >>)
           \o (IF UpBound(ev) THEN <<button_up_trigger_map[ev.button]>> ELSE << >>)
  /\ d = AfterUp(AfterDown(AfterAxis(c, ev), ev), ev)

\* C21: a pass of the polling loop on a decoded record invokes the axis
\* operation iff the axis is in the axis table, the button-down operation iff
\* the state is >= 1 and the button in the button-down table, the button-up
\* operation iff the state is 0 and the button in the button-up table; a
\* record with both has both invoked, the axis operation first
C21_DispatchRule ==
  [][(\E rec \in Records : UpdatePoll(rec, MaxRecords) /\ last'.exc = "None")
       => DispatchRule(ctl, ctl', last'.ev, last'.ops)]_vars

\* one record carried the throttle axis and a press of B: throttle is set
\* and recording toggled
C21_Witness ==
  /\ last.kind = "poll"
  /\ last.rec = Rec(1, 3, 1)
  /\ last.ops = <<"set_throttle", "toggle_manual_recording">>
  /\ ~FIsZero(ctl.throttle)
  /\ ~ctl.auto_record_on_throttle
  /\ ctl.recording

(***************************************************************************)
(* The calibration of the ESC                                              *)
(***************************************************************************)
\* the ESC has been written max_pulse, then min_pulse, then zero_pulse
CalibrationFirst(t) ==
  /\ Len(t.sent) >= 3
  /\ SubSeq(t.sent, 1, 3) = <<t.max_pulse, t.min_pulse, t.zero_pulse>>

\* a write to the ESC after those three is the pulse a pass of the vehicle
\* loop got from its throttle
CommandPulseAppended ==
  /\ \E fs, ft \in {<<FALSE, FALSE>>, <<TRUE, FALSE>>, <<TRUE, TRUE>>} :
       DrivePass(fs, ft)
  /\ Len(act.throttle.sent) >= 3
  /\ act'.throttle.sent = Append(act.throttle.sent, act'.throttle.pulse)
  /\ act'.throttle.pulse = PWMThrottle_run_threaded(act.throttle, out'.throttle).y

\* C22: the first three pulses the ESC is written are max_pulse, min_pulse
\* and zero_pulse of the throttle part, in that order, and every later one
\* is the pulse of a throttle the vehicle loop passed to run
C22_CalibrationBeforeCommands ==
  /\ []CalibrationFirst(act.throttle)
  /\ [][act'.throttle.sent # act.throttle.sent => CommandPulseAppended]_vars

\* after the calibration a pass has written the pulse of a throttle that is
\* not 0.0
C22_Witness ==
  /\ last.kind = "tick"
  /\ Len(act.throttle.sent) = 4
  /\ ~FIsZero(out.throttle)
  /\ act.throttle.sent[4] = act.throttle.pulse
  /\ act.throttle.sent[4] # act.throttle.zero_pulse

(***************************************************************************)
(* emergency_stop against a tick in progress                               *)
(***************************************************************************)
\* C23: once an emergency_stop has returned, estop_state is ES_IDLE again
\* only after run_threaded has returned from ES_START, ES_THROTTLE_NEG_ONE,
\* ES_THROTTLE_POS_ONE and ES_THROTTLE_NEG_TWO, in that order
C23_EStopNotLost ==
  (race.pending /\ race.es = 0 /\ ctl.estop_state = ES_IDLE) =>
     race.seen = <<ES_START, ES_THROTTLE_NEG_ONE, ES_THROTTLE_POS_ONE,
                   ES_THROTTLE_NEG_TWO>>

(***************************************************************************)
(* Recording and mode                                                      *)
(***************************************************************************)
\* C24: with auto_record_on_throttle, recording is True in mode 'user'
\* only, in the controller and in every tuple run_threaded returns
C24_RecordingImpliesUser ==
  ctl.auto_record_on_throttle =>
    /\ ctl.recording => ctl.mode = "user"
    /\ out.recording => out.mode = "user"
====
